---------------------------- MODULE Spec2Model ----------------------------
(***************************************************************************)
(* State-machine model of the evaluation core of iftracer-sdk:             *)
(*   iftracer/sdk/evaluation/models.py     (value types)                   *)
(*   iftracer/sdk/evaluation/evaluator.py  (Evaluator)                     *)
(*   iftracer/sdk/evaluation/batch.py      (BatchEvaluator)                *)
(*   iftracer/sdk/__init__.py              (Iftracer.get_evaluator and     *)
(*                                          the evaluation helpers)        *)
(*                                                                         *)
(* One top-level call is modelled at a time.  Every single evaluation      *)
(* (Evaluator.evaluate) is a worker record in `items`; it suspends only    *)
(* at the HTTP POST and at the back-off sleep, so a worker moves by the    *)
(* actions Begin, PostOutcome and Wake.  The HTTP transport is the         *)
(* environment: each POST nondeterministically raises a transport error    *)
(* or returns a status with a body.                                        *)
(*                                                                         *)
(* Python values: None is the string "None" for text fields; an optional   *)
(* integer is a set with at most one element ({} is None).                 *)
(***************************************************************************)
EXTENDS Integers, Sequences, FiniteSets

\* ------------------------------------------------------------------ bounds

\* Largest retry_attempts value a configuration is given (the field is a
\* count), for single evaluations and for batches.
MaxRetry == 3
MaxBatchRetry == 2

\* Largest number of entries of a homogeneous batch's input lists.
MaxBatch == 2

\* Largest number of entries of a mixed batch.
MaxMixed == 2

\* Largest batch handed to evaluate_batch / evaluate_batch_async directly
\* (more than the executor has workers).
MaxPoolBatch == 6

\* ------------------------------------------------------- models.py values

\* EvaluationConfig.retry_attempts, when the caller sets none.
DefaultRetryAttempts == 3

None == "None"

\* EvaluationType: the enumeration's values.
SAFETY == "safety"
HALLUCINATION_BIAS == "hallubias"
EXTERNAL_HALLUCINATION == "exterhallu"
EvaluationType == {SAFETY, HALLUCINATION_BIAS, EXTERNAL_HALLUCINATION}

\* A value that is no member of EvaluationType (a mixed-batch entry may carry
\* any object under 'type', or none: config.get('type') is then None).
OtherType == "other"

\* EvaluationConfig's endpoint properties (paths below api_endpoint).
safety_endpoint == "/api/external/v1/evaluation/safety"
hallubias_endpoint == "/api/external/v1/evaluation/bias-hallu"
exterhallu_endpoint == "/api/external/v1/evaluation/exter-hallu"

\* The text of an error message, kept as its parts: which message it is, and
\* the endpoint, attempt count and status the f-string formats into it.
Message(kind, endpoint, count, status) ==
    [kind |-> kind, endpoint |-> endpoint, count |-> count, status |-> status,
     type |-> None]

NoMessage == Message(None, None, {}, {})

\* Fault: a success response carries the HTTP status it was built from.
success_response_WithStatus(data) ==
    [success |-> TRUE, data |-> data, error_message |-> NoMessage,
     status_code |-> {200}]

\* EvaluationResponse.success_response
success_response(data) ==
    [success |-> TRUE, data |-> data, error_message |-> NoMessage,
     status_code |-> {}]

\* EvaluationResponse.error_response
error_response(error_message, status_code) ==
    [success |-> FALSE, data |-> None, error_message |-> error_message,
     status_code |-> status_code]

\* Python truthiness of an optional string: `not x` holds for None and "".
Falsy(x) == x = None \/ x = ""

\* ------------------------------------------------------------ the transport

\* requests.exceptions.RequestException subclasses requests.post raises.
TransportErrors == {"ConnectionError", "Timeout"}

\* HTTP statuses the server answers with: success, another 2xx, a redirect,
\* client errors, server errors and a status past the 5xx range.
Statuses == {200, 204, 302, 400, 404, 499, 500, 503, 599, 600}

\* Response bodies: a JSON object with an 'evaluations' key (whose value is
\* "evaluations_value"), a JSON object whose 'evaluations' key holds null, a
\* JSON object without the key, a JSON value that is no object (an array),
\* and text that is not JSON at all.
Bodies ==
    {"evals_object", "null_evaluations", "plain_object", "array", "not_json"}

\* What one requests.post call does.  json_caught says which requests
\* release is installed: since 2.27 response.json() raises
\* requests.exceptions.JSONDecodeError, a RequestException, which the except
\* clause of _post_request catches; earlier releases raise a plain ValueError,
\* which it does not catch.
Outcomes ==
    [kind : {"raise"}, error : TransportErrors, status : {0},
     body : {None}, json_caught : {FALSE}]
    \cup
    [kind : {"response"}, error : {None}, status : Statuses,
     body : Bodies, json_caught : BOOLEAN]

\* The transport a batch runs against: a POST raises a connection error, or
\* answers 200 with an 'evaluations' object, 200 with a JSON array, or 404.
BatchOutcomes ==
    {o \in Outcomes :
        \/ o.kind = "raise" /\ o.error = "ConnectionError"
        \/ /\ o.kind = "response" /\ ~o.json_caught
           /\ \/ o.status = 200 /\ o.body \in {"evals_object", "array"}
              \/ o.status = 404 /\ o.body = "plain_object"}

\* The transport of the runs with large batches: every POST answers 200 with
\* an 'evaluations' object.
PoolOutcomes ==
    {o \in BatchOutcomes :
        o.kind = "response" /\ o.status = 200 /\ o.body = "evals_object"}

\* The transport of the runs about requests and spans: a POST raises a
\* connection error or answers 200 with an 'evaluations' object.
RequestOutcomes ==
    {o \in BatchOutcomes :
        \/ o.kind = "raise"
        \/ o.kind = "response" /\ o.status = 200 /\ o.body = "evals_object"}

\* --------------------------------------------------------------- the state

VARIABLES
    env,        \* the process environment: clock, time zone, variables
    config,     \* self.config of the Evaluator: the EvaluationConfig it
                \* was constructed with, credentials filled in
    headers,    \* self.headers of the Evaluator
    transport,  \* the transport of this run: "any", "batch", "pool" or
                \* "request"
    caller,     \* what the caller holds: the EvaluationRequest objects it
                \* constructed and the optional arguments of its batch call
    facade,     \* the Iftracer facade: its evaluator and its callers
    call,       \* the top-level call in progress and how it ended
    items,      \* one record per single evaluation the call has submitted
    results     \* the list the call returns (as built so far)

vars == <<env, config, headers, transport, caller, facade, call, items, results>>

\* What a POST can do in this run.
TransportOutcomes ==
    CASE transport = "batch" -> BatchOutcomes
      [] transport = "pool" -> PoolOutcomes
      [] transport = "request" -> RequestOutcomes
      [] OTHER -> Outcomes

\* An EvaluationRequest as the evaluator reads it, with a trace id and a
\* timestamp the caller supplied and no project name of its own.
Request(prompt, response, explanation, score) ==
    [prompt |-> prompt, trace_id |-> "trace", timestamp |-> {1},
     response |-> response, explanation |-> explanation, score |-> score,
     project_name |-> None]

\* The process environment: the clock reading (UTC epoch milliseconds) of
\* datetime.now(), the local time zone's UTC offset in milliseconds, and the
\* variables IFTRACER_API_KEY and IFTRACER_USER_NAME (None: not set).
Environments ==
    [now : {1000}, offset : {-60, 0, 60},
     IFTRACER_API_KEY : {None, "", "env-key"},
     IFTRACER_USER_NAME : {None, "", "env-user"}]

\* An environment in UTC with both variables set.
PlainEnvironment ==
    [now |-> 1000, offset |-> 0, IFTRACER_API_KEY |-> "env-key",
     IFTRACER_USER_NAME |-> "env-user"]

\* str(uuid.uuid4()): the k-th identifier generated during a call.
Uuids ==
    <<"uuid-1", "uuid-2", "uuid-3", "uuid-4", "uuid-5", "uuid-6", "uuid-7",
      "uuid-8">>

Uuid(k) == Uuids[k]

\* Fault: __post_init__ fills nothing in.
EvaluationRequest_NoFill(prompt, trace_id, timestamp, response, explanation, score, project_name, uuid) ==
    [prompt |-> prompt, trace_id |-> trace_id, timestamp |-> timestamp,
     response |-> response, explanation |-> explanation, score |-> score,
     project_name |-> project_name]

\* EvaluationRequest(...): the dataclass with its __post_init__, which fills
\* a trace_id that is None or empty with `uuid` and a timestamp that is None
\* or 0 with the clock reading.
EvaluationRequest(prompt, trace_id, timestamp, response, explanation, score, project_name, uuid) ==
    [prompt |-> prompt,
     trace_id |-> IF Falsy(trace_id) THEN uuid ELSE trace_id,
     timestamp |-> IF timestamp = {} \/ timestamp = {0} THEN {env.now}
                   ELSE timestamp,
     response |-> response, explanation |-> explanation, score |-> score,
     project_name |-> project_name]

\* Fault: the shared name is written to every request.
BatchEvaluationRequest_Overwrite(requests, project_name) ==
    IF Falsy(project_name)
    THEN requests
    ELSE [i \in 1 .. Len(requests) |->
             [requests[i] EXCEPT !.project_name = project_name]]

\* BatchEvaluationRequest(requests, project_name).__post_init__: the requests
\* as the batch holds them.
BatchEvaluationRequest(requests, project_name) ==
    IF Falsy(project_name)
    THEN requests
    ELSE [i \in 1 .. Len(requests) |->
             IF Falsy(requests[i].project_name)
             THEN [requests[i] EXCEPT !.project_name = project_name]
             ELSE requests[i]]

\* An optional list argument left at None.
NoList == <<>>

\* The optional arguments trace_ids, timestamps and project_name of a batch
\* method; NoArgs when the caller passes none of them.
Args(trace_ids, timestamps, project_name) ==
    [trace_ids |-> trace_ids, timestamps |-> timestamps,
     project_name |-> project_name]

NoArgs == Args(NoList, NoList, None)

\* A request the caller holds: the object as it is now (req), as it was when
\* its construction ended (made), the way it was constructed ("direct" for
\* EvaluationRequest(...), "local" and "utc" for create_evaluation_request
\* with and without use_local_timestamp) and the trace_id and timestamp
\* arguments of that construction.
Held(req, path, trace_id, timestamp) ==
    [req |-> req, made |-> req, path |-> path, trace_id |-> trace_id,
     timestamp |-> timestamp]

\* A caller that constructed no request itself and passes no optional
\* argument.
\*   requests  the list of requests it holds
\*   batch     <<[project_name, size]>> once it has wrapped that list in a
\*             BatchEvaluationRequest: the shared name and the length of the
\*             list at that time
\*   args      the optional arguments of its homogeneous batch call
NoCaller == [requests |-> <<>>, batch |-> <<>>, args |-> NoArgs]

\* The facade class before any helper ran.
\*   evaluator   Iftracer.__evaluator: {} for None, else {k}, the k-th
\*               Evaluator construction
\*   evaluators  the Evaluator constructions so far, in order: who called
\*               the constructor, the credentials of the config it was
\*               given, the exception it raised (or None) and the
\*               credentials it left in the config
\*   threads     the threads that call a facade helper
NoFacade == [evaluator |-> {}, evaluators |-> <<>>, threads |-> <<>>]

\* Requests given to a single evaluate call.
Requests ==
    {Request("p", r, e, s) :
        r \in {None, "", "r"}, e \in {None, "", "e"}, s \in {{}, {0}}}

\* A single evaluation that has been submitted and has not started.
\*   pc       queued | posting | sleeping | returned | raised
\*   attempt  the loop variable of _post_request
\*   posts    requests.post calls issued
\*   errors   of these, the calls that raised a transport error
\*   answers  of these, the calls that returned an HTTP response
\*   http     the status of the last response received ({}: none)
\*   parsed   the body of that response if response.json() was called on
\*            it, else None
\*   sleeps   the time.sleep durations, in order
\*   result   <<the EvaluationResponse returned>>, or <<>>
\*   exc      the exception that left evaluate, or None
\*   slot     position of this item's response in `results` (0: not there)
\*   ended    asynchronous batch: the position of this evaluation in the
\*            order in which the batch's evaluations ended (0: not ended)
\*   sent     <<[endpoint, data]>>: where _post_request posts and the JSON
\*            payload it posts, or <<>> while no payload is built
\*   span     the attributes set on the ambient span of this evaluation,
\*            each a set: empty while unset, else holding the value
\*   span_fault  whether span.set_attribute raises in this evaluation: "none",
\*            "start" (from its first call on) or "end" (from the calls
\*            after _post_request on)
NoSpan ==
    [type |-> {}, trace_id |-> {}, timestamp |-> {}, score |-> {},
     success |-> {}, error |-> {}]

NewItem(type, req) ==
    [type |-> type, req |-> req, pc |-> "queued", attempt |-> 0,
     posts |-> 0, errors |-> 0, answers |-> 0, http |-> {}, parsed |-> None,
     sleeps |-> <<>>, result |-> <<>>, exc |-> None, slot |-> 0,
     ended |-> 0,
     sent |-> <<>>, span |-> NoSpan, span_fault |-> "none"]

Returned(it, resp) == [it EXCEPT !.pc = "returned", !.result = <<resp>>]

Raised(it, e) == [it EXCEPT !.pc = "raised", !.exc = e]

\* Fault: an evaluation that raised is never seen as ended.
Done_ReturnedOnly(it) == it.pc = "returned"

Done(it) == it.pc \in {"returned", "raised"}

RECURSIVE Pow2(_)
Pow2(n) == IF n = 0 THEN 1 ELSE 2 * Pow2(n - 1)

\* ------------------------------------------------- Evaluator, one request

\* os.getenv(name, "")
getenv(name) == IF env[name] = None THEN "" ELSE env[name]

\* Fault: the constructor raises only when both credentials are missing.
Evaluator__init__BothEmpty(api_key, username) ==
    LET key == IF Falsy(api_key) THEN getenv("IFTRACER_API_KEY")
               ELSE api_key
        user == IF Falsy(username) THEN getenv("IFTRACER_USER_NAME")
                ELSE username
    IN  [exc |-> IF key = "" /\ user = "" THEN "ValueError" ELSE None,
         api_key |-> key, username |-> user]

\* Evaluator.__init__(config), config given as its credentials (None for a
\* call without config, which gets EvaluationConfig()): the credentials after
\* the fallback to the environment, and whether the constructor raised
\* ValueError ([exc, api_key, username]).
Evaluator__init__(api_key, username) ==
    LET key == IF Falsy(api_key) THEN getenv("IFTRACER_API_KEY")
               ELSE api_key
        user == IF Falsy(username) THEN getenv("IFTRACER_USER_NAME")
                ELSE username
    IN  [exc |-> IF key = "" \/ user = "" THEN "ValueError" ELSE None,
         api_key |-> key, username |-> user]

\* Fault: the constructor accepts missing credentials.
Construction_Unchecked(by, api_key, username) ==
    LET made == Evaluator__init__(api_key, username)
    IN  [by |-> by, api_key |-> api_key, username |-> username,
         exc |-> None,
         config |-> [api_key |-> made.api_key, username |-> made.username]]

\* One call of Evaluator(config) as the facade's record of it.
Construction(by, api_key, username) ==
    LET made == Evaluator__init__(api_key, username)
    IN  [by |-> by, api_key |-> api_key, username |-> username,
         exc |-> made.exc,
         config |-> [api_key |-> made.api_key, username |-> made.username]]

\* EvaluationConfig.timeout, when the caller sets none.
DefaultTimeout == 30

\* self.config of an Evaluator constructed from EvaluationConfig(
\* project_name=.., api_key=.., username=.., retry_attempts=..), in an
\* environment where the construction succeeds: the fields as given or
\* defaulted, the credentials after the fallback to the environment.
EvaluatorConfig(api_key, username, project_name, retry_attempts) ==
    LET made == Evaluator__init__(api_key, username)
    IN  [project_name |-> project_name,
         api_endpoint |-> "https://ai-stg.insightfinder.com",
         api_key |-> made.api_key, username |-> made.username,
         timeout |-> DefaultTimeout, retry_attempts |-> retry_attempts]

\* self.headers as Evaluator.__init__ builds it from the credentials.
Headers(cfg) ==
    [h \in {"X-Api-Key", "X-User-Name", "Content-Type"} |->
        CASE h = "X-Api-Key" -> cfg.api_key
          [] h = "X-User-Name" -> cfg.username
          [] OTHER -> "application/json"]

\* Evaluator._get_trace_eval_timestamps
_get_trace_eval_timestamps ==
    [utc_timestamp |-> env.now,
     local_timestamp |-> IF env.offset # 0 THEN env.now + env.offset
                         ELSE env.now]

\* The endpoint each typed method posts to.
Endpoint(type) ==
    CASE type = SAFETY -> safety_endpoint
      [] type = HALLUCINATION_BIAS -> hallubias_endpoint
      [] type = EXTERNAL_HALLUCINATION -> exterhallu_endpoint
      [] OTHER -> None

\* Fault: every 2xx status is taken for success.
_process_response_Any2xx(status, body) ==
    IF 200 <= status /\ status < 300
    THEN CASE body = "not_json" ->
                [exc |-> "JSONDecodeError", value |-> <<>>]
           [] body = "array" ->
                \* response_data.get on a list
                [exc |-> "AttributeError", value |-> <<>>]
           [] body = "evals_object" ->
                [exc |-> None,
                 value |-> <<success_response("evaluations_value")>>]
           [] body = "null_evaluations" ->
                [exc |-> None, value |-> <<success_response(None)>>]
           [] OTHER ->
                [exc |-> None, value |-> <<success_response(body)>>]
    ELSE IF 400 <= status /\ status < 500
    THEN [exc |-> None,
          value |-> <<error_response(
                        Message("Client error", None, {}, {status}),
                        {status})>>]
    ELSE IF 500 <= status /\ status < 600
    THEN [exc |-> None,
          value |-> <<error_response(
                        Message("Server error", None, {}, {status}),
                        {status})>>]
    ELSE [exc |-> None,
          value |-> <<error_response(
                        Message("Unexpected status code", None, {}, {status}),
                        {status})>>]

\* Fault: the body is returned whole, 'evaluations' key or not.
_process_response_NoUnwrap(status, body) ==
    IF status = 200
    THEN CASE body = "not_json" ->
                [exc |-> "JSONDecodeError", value |-> <<>>]
           [] body = "array" ->
                [exc |-> "AttributeError", value |-> <<>>]
           [] OTHER ->
                [exc |-> None, value |-> <<success_response(body)>>]
    ELSE IF 400 <= status /\ status < 500
    THEN [exc |-> None,
          value |-> <<error_response(
                        Message("Client error", None, {}, {status}),
                        {status})>>]
    ELSE IF 500 <= status /\ status < 600
    THEN [exc |-> None,
          value |-> <<error_response(
                        Message("Server error", None, {}, {status}),
                        {status})>>]
    ELSE [exc |-> None,
          value |-> <<error_response(
                        Message("Unexpected status code", None, {}, {status}),
                        {status})>>]

\* Evaluator._process_response: the response returned, or the exception
\* raised ([exc, value]).  For a 200 the body is parsed and
\* response_data.get('evaluations', response_data) is the data: the value
\* under the key when the object has it (null included), the object itself
\* when it has not.
_process_response(status, body) ==
    IF status = 200
    THEN CASE body = "not_json" ->
                [exc |-> "JSONDecodeError", value |-> <<>>]
           [] body = "array" ->
                \* response_data.get on a list
                [exc |-> "AttributeError", value |-> <<>>]
           [] body = "evals_object" ->
                [exc |-> None,
                 value |-> <<success_response("evaluations_value")>>]
           [] body = "null_evaluations" ->
                [exc |-> None, value |-> <<success_response(None)>>]
           [] OTHER ->
                [exc |-> None, value |-> <<success_response(body)>>]
    ELSE IF 400 <= status /\ status < 500
    THEN [exc |-> None,
          value |-> <<error_response(
                        Message("Client error", None, {}, {status}),
                        {status})>>]
    ELSE IF 500 <= status /\ status < 600
    THEN [exc |-> None,
          value |-> <<error_response(
                        Message("Server error", None, {}, {status}),
                        {status})>>]
    ELSE [exc |-> None,
          value |-> <<error_response(
                        Message("Unexpected status code", None, {}, {status}),
                        {status})>>]

\* The end of a typed evaluate method once _post_request has returned
\* `result`: evaluation.success is set on the span, evaluation.error too when
\* the result is an error, and the result is returned.  Nothing catches what
\* set_attribute raises.
Finish(it, result) ==
    IF it.span_fault = "end"
    THEN Raised(it, "SetAttributeError")
    ELSE Returned([it EXCEPT
                      !.span.success = {result.success},
                      !.span.error = IF result.success THEN @
                                     ELSE {result.error_message}],
                  result)

\* Evaluator._post_request, the head of `for attempt in range(retry_attempts)`
\* reached with the next value a: the body posts, and when the range is
\* exhausted (at once for a count of 0) the statement after the loop returns.
LoopHead(it, a) ==
    IF a < config.retry_attempts
    THEN [it EXCEPT !.pc = "posting", !.attempt = a, !.posts = @ + 1]
    ELSE Finish(it, error_response(
                          Message("Unknown error occurred during request",
                                  None, {}, {}), {}))

\* Evaluator._post_request from its entry to the first POST.
EnterLoop(it) == LoopHead(it, 0)

\* Fault: the except clause gives up at the first exception.
OnRequestException_NoRetry(it) ==
    Finish(it, error_response(
                     Message("Request failed after attempts",
                             it.sent[1].endpoint,
                             {config.retry_attempts}, {}), {}))

\* Fault: every back-off sleep lasts one second.
OnRequestException_FixedDelay(it) ==
    IF it.attempt = config.retry_attempts - 1
    THEN Finish(it, error_response(
                          Message("Request failed after attempts",
                                  it.sent[1].endpoint,
                                  {config.retry_attempts}, {}), {}))
    ELSE [it EXCEPT !.pc = "sleeping", !.sleeps = Append(@, 1)]

\* Evaluator._post_request, the except clause.
OnRequestException(it) ==
    IF it.attempt = config.retry_attempts - 1
    THEN Finish(it, error_response(
                          Message("Request failed after attempts",
                                  it.sent[1].endpoint,
                                  {config.retry_attempts}, {}), {}))
    ELSE [it EXCEPT !.pc = "sleeping",
                    !.sleeps = Append(@, Pow2(it.attempt))]

\* Fault: a 5xx answer is retried like a transport error.
AfterPost_RetryServerError(it, o) ==
    IF o.kind = "raise"
    THEN OnRequestException([it EXCEPT !.errors = @ + 1])
    ELSE LET got == [it EXCEPT !.answers = @ + 1, !.http = {o.status},
                            !.parsed = IF o.status = 200 THEN o.body
                                       ELSE None]
             r == _process_response(o.status, o.body)
         IN  IF 500 <= o.status /\ o.status < 600
             THEN OnRequestException(got)
             ELSE IF r.exc = None THEN Finish(got, r.value[1])
             ELSE IF r.exc = "JSONDecodeError" /\ o.json_caught
             THEN OnRequestException(got)
             ELSE Raised(got, r.exc)

\* Evaluator._post_request, one pass of the loop body from the moment
\* requests.post ends with outcome o.
AfterPost(it, o) ==
    IF o.kind = "raise"
    THEN OnRequestException([it EXCEPT !.errors = @ + 1])
    ELSE LET got == [it EXCEPT !.answers = @ + 1, !.http = {o.status},
                            !.parsed = IF o.status = 200 THEN o.body
                                       ELSE None]
             r == _process_response(o.status, o.body)
         IN  IF r.exc = None THEN Finish(got, r.value[1])
             ELSE IF r.exc = "JSONDecodeError" /\ o.json_caught
             THEN OnRequestException(got)
             ELSE Raised(got, r.exc)

\* Fault: the configured project name wins over the request's.
projectName_ConfigFirst(req) ==
    IF Falsy(config.project_name) THEN req.project_name
    ELSE config.project_name

\* 'projectName' of a payload: request.project_name or config.project_name.
projectName(req) ==
    IF Falsy(req.project_name) THEN config.project_name ELSE req.project_name

\* The payloads of the three typed methods.
SafetyData(req) ==
    [projectName |-> projectName(req), prompt |-> req.prompt,
     traceId |-> req.trace_id, timestamp |-> req.timestamp]

HallucinationBiasData(req) ==
    [projectName |-> projectName(req), prompt |-> req.prompt,
     response |-> req.response, traceId |-> req.trace_id,
     timestamp |-> req.timestamp]

ExternalHallucinationData(req) ==
    [projectName |-> projectName(req), prompt |-> req.prompt,
     response |-> req.response, traceId |-> req.trace_id,
     timestamp |-> req.timestamp, evaluationResult |-> req.explanation,
     score |-> req.score]

\* A typed evaluate method from its first set_attribute to its first POST:
\* the span gets the method's type, the request's trace id and timestamp
\* (and `score`, a set, for the external method), the payload is built and
\* _post_request is entered.
Start(it, type, score, endpoint, data) ==
    IF it.span_fault = "start"
    THEN Raised(it, "SetAttributeError")
    ELSE EnterLoop([it EXCEPT
                       !.span = [@ EXCEPT !.type = {type},
                                          !.trace_id = {it.req.trace_id},
                                          !.timestamp = {it.req.timestamp},
                                          !.score = score],
                       !.sent = <<[endpoint |-> endpoint, data |-> data,
                                   headers |-> headers,
                                   timeout |-> config.timeout]>>])

\* Evaluator.evaluate_safety, up to the first POST.
evaluate_safety(it) ==
    Start(it, SAFETY, {}, safety_endpoint, SafetyData(it.req))

\* Evaluator.evaluate_hallucination_bias, up to the first POST.
evaluate_hallucination_bias(it) ==
    IF Falsy(it.req.response)
    THEN Returned(it, error_response(
                          Message("Response is required", None, {}, {}), {}))
    ELSE Start(it, HALLUCINATION_BIAS, {}, hallubias_endpoint,
               HallucinationBiasData(it.req))

\* Fault: the explanation/score test joins its halves with `and`.
evaluate_external_hallucination_And(it) ==
    IF Falsy(it.req.response)
    THEN Returned(it, error_response(
                          Message("Response is required", None, {}, {}), {}))
    ELSE IF it.req.explanation = None /\ it.req.score = {}
    THEN Returned(it, error_response(
                          Message("Explanation and score are required",
                                  None, {}, {}), {}))
    ELSE Start(it, EXTERNAL_HALLUCINATION, {it.req.score},
               exterhallu_endpoint, ExternalHallucinationData(it.req))

\* Evaluator.evaluate_external_hallucination, up to the first POST.
evaluate_external_hallucination(it) ==
    IF Falsy(it.req.response)
    THEN Returned(it, error_response(
                          Message("Response is required", None, {}, {}), {}))
    ELSE IF it.req.explanation = None \/ it.req.score = {}
    THEN Returned(it, error_response(
                          Message("Explanation and score are required",
                                  None, {}, {}), {}))
    ELSE Start(it, EXTERNAL_HALLUCINATION, {it.req.score},
               exterhallu_endpoint, ExternalHallucinationData(it.req))

\* Fault: a type that is none of the three is evaluated as SAFETY.
evaluate_DefaultSafety(it) ==
    CASE it.type = HALLUCINATION_BIAS -> evaluate_hallucination_bias(it)
      [] it.type = EXTERNAL_HALLUCINATION ->
            evaluate_external_hallucination(it)
      [] OTHER -> evaluate_safety(it)

\* Evaluator.evaluate: dispatch on the type.
evaluate(it) ==
    CASE it.type = SAFETY -> evaluate_safety(it)
      [] it.type = HALLUCINATION_BIAS -> evaluate_hallucination_bias(it)
      [] it.type = EXTERNAL_HALLUCINATION ->
            evaluate_external_hallucination(it)
      [] OTHER ->
            Returned(it, error_response(
                             [Message("Unsupported evaluation type",
                                      None, {}, {})
                                 EXCEPT !.type = it.type], {}))

\* ------------------------------------------------------------ the calls

\* No call has been made yet.
\*   kind    idle | evaluate | batch | batch_async | mixed
\*   phase   idle | running | returned | raised
\*   exc     the exception the call raised, or None
\*   lens    lengths of the lists the caller passed, prompts (or the
\*           entries of a mixed batch) first
\*   groups  mixed batch: the sub-batches still to be evaluated
\*   types   mixed batch: the 'type' of each entry of evaluation_configs, in
\*           the order the caller gave them
\*   span    the attributes evaluate_batch / evaluate_batch_async set on
\*           their span (of a mixed batch: the sub-batch that ran last);
\*           an attribute not set is the empty set
Idle ==
    [kind |-> "idle", phase |-> "idle", exc |-> None, lens |-> <<>>,
     groups |-> <<>>, types |-> <<>>,
     span |-> [type |-> {}, batch_size |-> {}, successful_count |-> {},
               failed_count |-> {}]]

Init ==
    /\ env = PlainEnvironment
    /\ config \in {EvaluatorConfig(None, None, "", n) : n \in 0 .. MaxRetry}
    /\ headers = Headers(config)
    /\ transport = "any"
    /\ caller = NoCaller
    /\ facade = NoFacade
    /\ call = Idle
    /\ items = <<>>
    /\ results = <<>>

\* An evaluation of an asynchronous batch as its task leaves it: when it has
\* ended it is the next in the order of completion.
Ended(it) ==
    IF call.kind = "batch_async" /\ Done(it)
    THEN [it EXCEPT !.ended =
             1 + Cardinality({j \in 1 .. Len(items) : Done(items[j])})]
    ELSE it

\* How a single evaluate call stands once its only evaluation is `it`.
SingleCall(it) ==
    [Idle EXCEPT !.kind = "evaluate", !.lens = <<1>>,
                 !.phase = CASE it.pc = "returned" -> "returned"
                             [] it.pc = "raised" -> "raised"
                             [] OTHER -> "running",
                 !.exc = it.exc]

\* The state after evaluation i of the call has moved to `it`: a single
\* evaluate call ends when its evaluation does, with its response or its
\* exception; a batch only sees the worker change.
Moved(i, it) ==
    IF call.kind = "evaluate"
    THEN /\ items' = <<[it EXCEPT !.slot = IF it.pc = "returned" THEN 1 ELSE 0]>>
         /\ call' = SingleCall(it)
         /\ results' = it.result
    ELSE /\ items' = [items EXCEPT ![i] = Ended(it)]
         /\ UNCHANGED <<call, results>>

\* Evaluator.evaluate(evaluation_type, request), called directly: runs to the
\* first POST, or to its return when no POST is made.
CallEvaluate ==
    /\ call.kind = "idle"
    /\ \E type \in EvaluationType \cup {OtherType}, req \in Requests :
          LET it == evaluate(NewItem(type, req))
          IN  /\ items' = <<[it EXCEPT !.slot =
                                 IF it.pc = "returned" THEN 1 ELSE 0]>>
              /\ call' = SingleCall(it)
              /\ results' = it.result
    /\ UNCHANGED <<env, caller, facade, config, headers, transport>>

\* requests.post of evaluation i ends: a transport error, or a response that
\* _process_response maps.
PostOutcome(i) ==
    /\ items[i].pc = "posting"
    /\ \E o \in TransportOutcomes : Moved(i, AfterPost(items[i], o))
    /\ UNCHANGED <<env, caller, facade, config, headers, transport>>

\* time.sleep of evaluation i ends: the loop's next pass posts again.
Wake(i) ==
    /\ items[i].pc = "sleeping"
    /\ Moved(i, LoopHead(items[i], items[i].attempt + 1))
    /\ UNCHANGED <<env, caller, facade, config, headers, transport>>

\* ------------------------------------------- Evaluator, batches of requests

\* max_workers of the ThreadPoolExecutor of evaluate_batch.
MaxWorkers == 5

\* Evaluations of the call that hold a worker thread.
InFlight == {i \in 1 .. Len(items) : items[i].pc \in {"posting", "sleeping"}}

\* What the batch puts in its result list for an evaluation that ended:
\* its response, or an error response for the exception it raised.
Collected(it) ==
    IF it.pc = "raised"
    THEN error_response(Message("Evaluation failed", None, {}, {}), {})
    ELSE it.result[1]

\* The span attributes a batch call sets before it submits anything:
\* evaluation.type is the value of the evaluation type behind "batch_" or
\* "async_batch_", evaluation.batch_size is len(batch_request.requests).
BatchSpan(kind, type, its) ==
    [type |-> {[prefix |-> IF kind = "batch_async"
                           THEN "async_batch_" ELSE "batch_",
                value |-> type]},
     batch_size |-> {Len(its)}, successful_count |-> {}, failed_count |-> {}]

\* Fault: failed_count counts the error responses the evaluations returned,
\* and leaves out the evaluations that raised.
Counted_ReturnedOnly(span, its) ==
    LET successful_evaluations ==
            Cardinality({j \in 1 .. Len(its) :
                            its[j].pc = "returned" /\ its[j].result[1].success})
        failed ==
            Cardinality({j \in 1 .. Len(its) :
                            its[j].pc = "returned" /\ ~its[j].result[1].success})
    IN  [span EXCEPT !.successful_count = {successful_evaluations},
                     !.failed_count = {failed}]

\* The span attributes a batch call sets before it returns, `its` being the
\* evaluations of the batch, all ended: successful_evaluations counts the
\* responses with success set, an evaluation that raised is never counted,
\* and failed_count is len(batch_request.requests) less that count.
Counted(span, its) ==
    LET successful_evaluations ==
            Cardinality({j \in 1 .. Len(its) :
                            its[j].pc = "returned" /\ its[j].result[1].success})
    IN  [span EXCEPT !.successful_count = {successful_evaluations},
                     !.failed_count = {Len(its) - successful_evaluations}]

\* The evaluations of `its` that belong to the batch evaluation i is in: all
\* of them, or in a mixed batch those of its sub-batch, which share a type.
BatchOf(its, i) == SelectSeq(its, LAMBDA it : it.type = its[i].type)

\* A batch call starts on the evaluations `its`, all submitted at once; a
\* batch of none returns the empty list at once.
StartBatch(kind, type, lens, its, groups) ==
    /\ items' = items \o its
    /\ call' = [Idle EXCEPT !.kind = kind, !.lens = lens, !.groups = groups,
                            !.phase = IF Len(its) = 0 /\ Len(groups) = 0
                                      THEN "returned" ELSE "running",
                            !.span = IF Len(its) = 0
                                     THEN Counted(BatchSpan(kind, type, its), its)
                                     ELSE BatchSpan(kind, type, its)]

\* Fault: the executor starts a worker thread for every submitted evaluation.
Begin_Unbounded(i) ==
    /\ call.phase = "running"
    /\ call.kind \in {"batch", "batch_async", "mixed"}
    /\ items[i].pc = "queued"
    /\ \A j \in 1 .. (i - 1) : items[j].pc # "queued"
    /\ items' = [items EXCEPT ![i] = Ended(evaluate(items[i]))]
    /\ UNCHANGED <<env, caller, facade, config, headers, transport, call, results>>

\* Fault: the worker puts the trace id of its request in the headers the
\* evaluator's workers share.
Begin_SharedTraceHeader(i) ==
    /\ call.phase = "running"
    /\ call.kind \in {"batch", "batch_async", "mixed"}
    /\ items[i].pc = "queued"
    /\ \A j \in 1 .. (i - 1) : items[j].pc # "queued"
    /\ call.kind # "batch_async" => Cardinality(InFlight) < MaxWorkers
    /\ items' = [items EXCEPT ![i] = Ended(evaluate(items[i]))]
    /\ headers' = [h \in DOMAIN headers \cup {"X-Trace-Id"} |->
                      IF h = "X-Trace-Id" THEN items[i].req.trace_id
                      ELSE headers[h]]
    /\ UNCHANGED <<env, caller, facade, config, transport, call, results>>

\* A worker thread takes evaluation i from the executor's queue (first in,
\* first out) and runs Evaluator.evaluate to its first POST, or to its return
\* when no POST is made.  evaluate_batch runs on a pool of MaxWorkers
\* threads; evaluate_batch_async on the event loop's default executor, whose
\* size this code does not set.
Begin(i) ==
    /\ call.phase = "running"
    /\ call.kind \in {"batch", "batch_async", "mixed"}
    /\ items[i].pc = "queued"
    /\ \A j \in 1 .. (i - 1) : items[j].pc # "queued"
    /\ call.kind # "batch_async" => Cardinality(InFlight) < MaxWorkers
    /\ items' = [items EXCEPT ![i] = Ended(evaluate(items[i]))]
    /\ UNCHANGED <<env, caller, facade, config, headers, transport, call, results>>

\* Fault: the as_completed loop has no except clause, so future.result()
\* re-raises the exception of evaluation i out of evaluate_batch.
Collect_Propagate(i) ==
    /\ call.phase = "running"
    /\ call.kind \in {"batch", "mixed"}
    /\ Done(items[i])
    /\ items[i].slot = 0
    /\ IF items[i].pc = "raised"
       THEN /\ call' = [call EXCEPT !.phase = "raised", !.exc = items[i].exc]
            /\ UNCHANGED <<items, results>>
       ELSE /\ results' = Append(results, Collected(items[i]))
            /\ LET mine == [items EXCEPT ![i].slot = Len(results) + 1]
                   last == \A j \in 1 .. Len(items) :
                              Done(mine[j]) /\ mine[j].slot # 0
               IN  IF ~last
                   THEN items' = mine /\ call' = call
                   ELSE IF call.groups = <<>>
                   THEN /\ items' = mine
                        /\ call' = [call EXCEPT !.phase = "returned"]
                   ELSE /\ items' = mine \o Head(call.groups)
                        /\ call' = [call EXCEPT !.groups = Tail(@)]
    /\ UNCHANGED <<env, caller, facade, config, headers, transport>>

\* Fault: the as_completed loop stops at the first error response and
\* returns what it has collected, leaving the other futures behind.
Collect_StopAtFailure(i) ==
    /\ call.phase = "running"
    /\ call.kind \in {"batch", "mixed"}
    /\ Done(items[i])
    /\ items[i].slot = 0
    /\ results' = Append(results, Collected(items[i]))
    /\ LET mine == [items EXCEPT ![i].slot = Len(results) + 1]
           last == \/ ~Collected(items[i]).success
                   \/ \A j \in 1 .. Len(items) :
                         Done(mine[j]) /\ mine[j].slot # 0
       IN  IF ~last
           THEN items' = mine /\ call' = call
           ELSE IF call.groups = <<>>
           THEN items' = mine /\ call' = [call EXCEPT !.phase = "returned"]
           ELSE /\ items' = mine \o Head(call.groups)
                /\ call' = [call EXCEPT !.groups = Tail(@)]
    /\ UNCHANGED <<env, caller, facade, config, headers, transport>>

\* Evaluator.evaluate_batch, one pass of the as_completed loop: the future of
\* evaluation i has completed and its outcome is appended.  After the last
\* one the call returns; in a mixed batch the next sub-batch is submitted
\* instead, if there is one.
Collect(i) ==
    /\ call.phase = "running"
    /\ call.kind \in {"batch", "mixed"}
    /\ Done(items[i])
    /\ items[i].slot = 0
    /\ results' = Append(results, Collected(items[i]))
    /\ LET mine == [items EXCEPT ![i].slot = Len(results) + 1]
           last == \A j \in 1 .. Len(items) : Done(mine[j]) /\ mine[j].slot # 0
       IN  IF ~last
           THEN items' = mine /\ call' = call
           ELSE IF call.groups = <<>>
           THEN /\ items' = mine
                /\ call' = [call EXCEPT
                               !.phase = "returned",
                               !.span = Counted(@, BatchOf(mine, i))]
           ELSE /\ items' = mine \o Head(call.groups)
                /\ call' = [call EXCEPT
                               !.groups = Tail(@),
                               !.span = BatchSpan("batch",
                                                  Head(call.groups)[1].type,
                                                  Head(call.groups))]
    /\ UNCHANGED <<env, caller, facade, config, headers, transport>>

\* Fault: asyncio.gather is called without return_exceptions=True, so the
\* first exception of a task is raised out of evaluate_batch_async.
Gather_Propagate ==
    /\ call.phase = "running"
    /\ call.kind = "batch_async"
    /\ IF \E j \in 1 .. Len(items) : items[j].pc = "raised"
       THEN /\ call' = [call EXCEPT !.phase = "raised",
                                    !.exc = "AttributeError"]
            /\ UNCHANGED <<items, results>>
       ELSE /\ \A j \in 1 .. Len(items) : Done(items[j])
            /\ results' = [j \in 1 .. Len(items) |-> Collected(items[j])]
            /\ items' = [j \in 1 .. Len(items) |->
                            [items[j] EXCEPT !.slot = j]]
            /\ call' = [call EXCEPT !.phase = "returned"]
    /\ UNCHANGED <<env, caller, facade, config, headers, transport>>

\* Fault: the outcomes are listed in the order the tasks ended in.
Gather_CompletionOrder ==
    /\ call.phase = "running"
    /\ call.kind = "batch_async"
    /\ \A j \in 1 .. Len(items) : Done(items[j])
    /\ results' = [k \in 1 .. Len(items) |->
                      Collected(items[CHOOSE j \in 1 .. Len(items) :
                                         items[j].ended = k])]
    /\ items' = [j \in 1 .. Len(items) |->
                    [items[j] EXCEPT !.slot = items[j].ended]]
    /\ call' = [call EXCEPT !.phase = "returned"]
    /\ UNCHANGED <<env, caller, facade, config, headers, transport>>

\* Evaluator.evaluate_batch_async from the return of asyncio.gather(...,
\* return_exceptions=True): every task has ended, and the outcomes are
\* processed in submission order.
Gather ==
    /\ call.phase = "running"
    /\ call.kind = "batch_async"
    /\ \A j \in 1 .. Len(items) : Done(items[j])
    /\ results' = [j \in 1 .. Len(items) |-> Collected(items[j])]
    /\ items' = [j \in 1 .. Len(items) |-> [items[j] EXCEPT !.slot = j]]
    /\ call' = [call EXCEPT !.phase = "returned",
                            !.span = Counted(@, items)]
    /\ UNCHANGED <<env, caller, facade, config, headers, transport>>

\* ----------------------------------------------------------- BatchEvaluator

\* A keyword argument the caller did not pass.
Absent == "<absent>"

\* Lists of at most MaxBatch elements of S.
Lists(S) == UNION {[1 .. n -> S] : n \in 0 .. MaxBatch}

\* Values the elements of a batch's input lists take.
BatchPrompts == {"p"}
BatchResponses == {None, "r"}
BatchExplanations == {None, "e"}
BatchScores == {{}, {0}}

\* Evaluator.create_evaluation_request(prompt=..., response=..., ...): the
\* request built, or the TypeError of a call without the required prompt
\* ([exc, req]).  A timestamp of None is generated here, local or UTC; a
\* trace_id that is None or empty is replaced by `uuid`; a project_name that
\* is None or empty by the configured one.
create_evaluation_request(prompt, response, trace_id, timestamp, explanation, score, project_name, use_local_timestamp, uuid) ==
    IF prompt = Absent
    THEN [exc |-> "TypeError", req |-> <<>>]
    ELSE [exc |-> None,
          req |-> <<EvaluationRequest(
                      prompt,
                      IF Falsy(trace_id) THEN uuid ELSE trace_id,
                      IF timestamp # {} THEN timestamp
                      ELSE IF use_local_timestamp
                      THEN {_get_trace_eval_timestamps.local_timestamp}
                      ELSE {env.now},
                      response, explanation, score,
                      IF Falsy(project_name) THEN config.project_name
                      ELSE project_name,
                      uuid)>>]

\* Fault: the length test only rejects lists shorter than prompts.
SameLengths_AtLeast(prompts, lists) ==
    \A k \in 1 .. Len(lists) : Len(prompts) <= Len(lists[k])

\* The length test of the homogeneous batch methods: every list is as long as
\* prompts.
SameLengths(prompts, lists) ==
    \A k \in 1 .. Len(lists) : Len(prompts) = Len(lists[k])

\* `lst[i] if lst else None` misses: the list is not empty and too short.
TooShort(lst, n) == Len(lst) # 0 /\ Len(lst) < n

\* BatchEvaluator._create_batch_requests ([exc, reqs]); an optional list is
\* <<>> for None and for the empty list, which the code does not tell apart.
_create_batch_requests(prompts, responses, trace_ids, timestamps, project_name) ==
    IF \/ TooShort(responses, Len(prompts))
       \/ TooShort(trace_ids, Len(prompts))
       \/ TooShort(timestamps, Len(prompts))
    THEN [exc |-> "IndexError", reqs |-> <<>>]
    ELSE [exc |-> None,
          reqs |-> [i \in 1 .. Len(prompts) |->
                      create_evaluation_request(
                          prompts[i],
                          IF Len(responses) # 0 THEN responses[i] ELSE None,
                          IF Len(trace_ids) # 0 THEN trace_ids[i] ELSE None,
                          IF Len(timestamps) # 0 THEN timestamps[i] ELSE {},
                          None, {}, project_name, TRUE, Uuid(i)).req[1]]]

\* The request loop of evaluate_external_hallucination_batch ([exc, reqs]).
ExternalRequests(prompts, responses, explanations, scores, trace_ids, timestamps, project_name) ==
    IF \/ Len(responses) < Len(prompts)
       \/ Len(explanations) < Len(prompts)
       \/ Len(scores) < Len(prompts)
       \/ TooShort(trace_ids, Len(prompts))
       \/ TooShort(timestamps, Len(prompts))
    THEN [exc |-> "IndexError", reqs |-> <<>>]
    ELSE [exc |-> None,
          reqs |-> [i \in 1 .. Len(prompts) |->
                      create_evaluation_request(
                          prompts[i], responses[i],
                          IF Len(trace_ids) # 0 THEN trace_ids[i] ELSE None,
                          IF Len(timestamps) # 0 THEN timestamps[i] ELSE {},
                          explanations[i], scores[i], project_name, TRUE,
                          Uuid(i)).req[1]]]

\* The call raises e before it has submitted anything.
Raise(kind, lens, e) ==
    /\ call' = [Idle EXCEPT !.kind = kind, !.lens = lens,
                            !.phase = "raised", !.exc = e]
    /\ items' = items

\* The requests were built (or building them raised): wrap them in a
\* BatchEvaluationRequest and hand it to evaluate_batch / evaluate_batch_async.
Submit(kind, type, lens, project_name, built) ==
    IF built.exc # None
    THEN Raise(kind, lens, built.exc)
    ELSE LET held == BatchEvaluationRequest(built.reqs, project_name)
         IN  StartBatch(kind, type, lens,
                        [i \in 1 .. Len(held) |-> NewItem(type, held[i])],
                        <<>>)

\* BatchEvaluator.evaluate_safety_batch and evaluate_safety_batch_async.
SafetyBatch(kind, prompts, args) ==
    Submit(kind, SAFETY, <<Len(prompts)>>, args.project_name,
           _create_batch_requests(prompts, NoList, args.trace_ids,
                                  args.timestamps, args.project_name))

\* BatchEvaluator.evaluate_hallucination_bias_batch and its _async twin.
HallucinationBiasBatch(kind, prompts, responses, args) ==
    IF ~SameLengths(prompts, <<responses>>)
    THEN Raise(kind, <<Len(prompts), Len(responses)>>, "ValueError")
    ELSE Submit(kind, HALLUCINATION_BIAS, <<Len(prompts), Len(responses)>>,
                args.project_name,
                _create_batch_requests(prompts, responses, args.trace_ids,
                                       args.timestamps, args.project_name))

\* BatchEvaluator.evaluate_external_hallucination_batch.
ExternalHallucinationBatch(kind, prompts, responses, explanations, scores, args) ==
    LET lens == <<Len(prompts), Len(responses), Len(explanations),
                  Len(scores)>>
    IN  IF ~SameLengths(prompts, <<responses, explanations, scores>>)
        THEN Raise(kind, lens, "ValueError")
        ELSE Submit(kind, EXTERNAL_HALLUCINATION, lens, args.project_name,
                    ExternalRequests(prompts, responses, explanations,
                                     scores, args.trace_ids, args.timestamps,
                                     args.project_name))

evaluate_safety_batch ==
    /\ call.kind = "idle"
    /\ \E prompts \in Lists(BatchPrompts) :
          SafetyBatch("batch", prompts, NoArgs)
    /\ UNCHANGED <<env, caller, facade, config, headers, transport, results>>

evaluate_safety_batch_async ==
    /\ call.kind = "idle"
    /\ \E prompts \in Lists(BatchPrompts) :
          SafetyBatch("batch_async", prompts, NoArgs)
    /\ UNCHANGED <<env, caller, facade, config, headers, transport, results>>

evaluate_hallucination_bias_batch ==
    /\ call.kind = "idle"
    /\ \E prompts \in Lists(BatchPrompts), responses \in Lists(BatchResponses) :
          HallucinationBiasBatch("batch", prompts, responses, NoArgs)
    /\ UNCHANGED <<env, caller, facade, config, headers, transport, results>>

evaluate_hallucination_bias_batch_async ==
    /\ call.kind = "idle"
    /\ \E prompts \in Lists(BatchPrompts), responses \in Lists(BatchResponses) :
          HallucinationBiasBatch("batch_async", prompts, responses, NoArgs)
    /\ UNCHANGED <<env, caller, facade, config, headers, transport, results>>

evaluate_external_hallucination_batch ==
    /\ call.kind = "idle"
    /\ \E prompts \in Lists(BatchPrompts), responses \in Lists(BatchResponses),
          explanations \in Lists(BatchExplanations),
          scores \in Lists(BatchScores) :
          ExternalHallucinationBatch("batch", prompts, responses,
                                     explanations, scores, NoArgs)
    /\ UNCHANGED <<env, caller, facade, config, headers, transport, results>>

\* Request payloads of mixed-batch entries: the keyword arguments given to
\* create_evaluation_request; a key the payload lacks takes the parameter's
\* default, and prompt has none.
MixedPayloads ==
    {[prompt |-> Absent, response |-> None, explanation |-> None, score |-> {}],
     [prompt |-> "p", response |-> None, explanation |-> None, score |-> {}],
     [prompt |-> "p", response |-> "r", explanation |-> "e", score |-> {0}]}

\* Entries of a mixed batch: {'type': ..., 'request': {...}}.
MixedEntries ==
    [type : EvaluationType \cup {OtherType}, request : MixedPayloads]

MixedLists == UNION {[1 .. n -> MixedEntries] : n \in 0 .. MaxMixed}

\* The request evaluate_mixed_batch builds for entry c, the k-th of the
\* input ([exc, req]).
MixedRequest(c, k) ==
    create_evaluation_request(c.request.prompt, c.request.response, None, {},
                              c.request.explanation, c.request.score, None,
                              TRUE, Uuid(k))

\* The list (safety_requests, hallubias_requests or exterhallu_requests) the
\* grouping loop of evaluate_mixed_batch fills for `type`, as evaluations to
\* submit; an entry of no supported type is appended to none of them.
GroupOf(configs, type) ==
    LET sel == SelectSeq([k \in 1 .. Len(configs) |-> k],
                         LAMBDA k : configs[k].type = type)
    IN  [i \in 1 .. Len(sel) |->
            NewItem(type, MixedRequest(configs[sel[i]], sel[i]).req[1])]

\* Fault: the sub-batches are evaluated in the opposite order.
GroupsOf_Reversed(configs) ==
    SelectSeq(<<GroupOf(configs, EXTERNAL_HALLUCINATION),
                GroupOf(configs, HALLUCINATION_BIAS),
                GroupOf(configs, SAFETY)>>,
              LAMBDA g : Len(g) > 0)

\* The sub-batches evaluate_mixed_batch evaluates, in its order; an empty
\* list is skipped.
GroupsOf(configs) ==
    SelectSeq(<<GroupOf(configs, SAFETY),
                GroupOf(configs, HALLUCINATION_BIAS),
                GroupOf(configs, EXTERNAL_HALLUCINATION)>>,
              LAMBDA g : Len(g) > 0)

\* Fault: the sub-batches are all submitted together instead of one after
\* the other.
StartMixed_AllAtOnce(configs, groups) ==
    /\ items' = items \o
                    (CASE Len(groups) = 0 -> <<>>
                       [] Len(groups) = 1 -> groups[1]
                       [] Len(groups) = 2 -> groups[1] \o groups[2]
                       [] OTHER -> groups[1] \o groups[2] \o groups[3])
    /\ call' = [Idle EXCEPT
                   !.kind = "mixed", !.lens = <<Len(configs)>>,
                   !.types = [k \in 1 .. Len(configs) |-> configs[k].type],
                   !.phase = IF Len(groups) = 0
                             THEN "returned" ELSE "running"]

\* evaluate_mixed_batch submits its first sub-batch, the others waiting in
\* `groups`; with no sub-batch at all it returns the empty list at once.
StartMixed(configs, groups) ==
    /\ items' = items \o (IF Len(groups) = 0 THEN <<>> ELSE Head(groups))
    /\ call' = [Idle EXCEPT
                   !.kind = "mixed", !.lens = <<Len(configs)>>,
                   !.types = [k \in 1 .. Len(configs) |-> configs[k].type],
                   !.groups = IF Len(groups) = 0 THEN <<>> ELSE Tail(groups),
                   !.span = IF Len(groups) = 0 THEN @
                            ELSE BatchSpan("batch", Head(groups)[1].type,
                                           Head(groups)),
                   !.phase = IF Len(groups) = 0
                             THEN "returned" ELSE "running"]

\* BatchEvaluator.evaluate_mixed_batch, to the submission of its first
\* sub-batch: building a request may raise, which ends the call.
MixedBatch(configs) ==
    IF \E k \in 1 .. Len(configs) : MixedRequest(configs[k], k).exc # None
    THEN Raise("mixed", <<Len(configs)>>, "TypeError")
    ELSE StartMixed(configs, GroupsOf(configs))

evaluate_mixed_batch ==
    /\ call.kind = "idle"
    /\ \E configs \in MixedLists : MixedBatch(configs)
    /\ UNCHANGED <<env, caller, facade, config, headers, transport, results>>

\* A single evaluate call against any transport.
Next ==
    \/ CallEvaluate
    \/ \E i \in 1 .. Len(items) : PostOutcome(i)
    \/ \E i \in 1 .. Len(items) : Wake(i)

Spec == Init /\ [][Next]_vars

\* A batch call (homogeneous, asynchronous or mixed) against the batch
\* transport.
InitBatch ==
    /\ env = PlainEnvironment
    /\ config \in {EvaluatorConfig(None, None, "", n) :
                      n \in 0 .. MaxBatchRetry}
    /\ headers = Headers(config)
    /\ transport = "batch"
    /\ caller = NoCaller
    /\ facade = NoFacade
    /\ call = Idle
    /\ items = <<>>
    /\ results = <<>>

NextBatch ==
    \/ evaluate_safety_batch
    \/ evaluate_hallucination_bias_batch
    \/ evaluate_external_hallucination_batch
    \/ evaluate_safety_batch_async
    \/ evaluate_hallucination_bias_batch_async
    \/ evaluate_mixed_batch
    \/ \E i \in 1 .. Len(items) : Begin(i)
    \/ \E i \in 1 .. Len(items) : PostOutcome(i)
    \/ \E i \in 1 .. Len(items) : Wake(i)
    \/ \E i \in 1 .. Len(items) : Collect(i)
    \/ Gather

SpecBatch == InitBatch /\ [][NextBatch]_vars

\* Evaluator.evaluate_batch(SAFETY, batch_request), called directly with a
\* batch of up to MaxPoolBatch safety requests.
PoolRequests(n) ==
    [i \in 1 .. n |-> NewItem(SAFETY, Request("p", None, None, {}))]

evaluate_batch ==
    /\ call.kind = "idle"
    /\ \E n \in 0 .. MaxPoolBatch :
          StartBatch("batch", SAFETY, <<n>>, PoolRequests(n), <<>>)
    /\ UNCHANGED <<env, caller, facade, config, headers, transport, results>>

\* Evaluator.evaluate_batch_async(SAFETY, batch_request), called directly.
evaluate_batch_async ==
    /\ call.kind = "idle"
    /\ \E n \in 0 .. MaxPoolBatch :
          StartBatch("batch_async", SAFETY, <<n>>, PoolRequests(n), <<>>)
    /\ UNCHANGED <<env, caller, facade, config, headers, transport, results>>

\* A batch larger than the worker pool, against a transport that always
\* answers; retry_attempts is the default of EvaluationConfig.
InitPool ==
    /\ env = PlainEnvironment
    /\ config = EvaluatorConfig(None, None, "", DefaultRetryAttempts)
    /\ headers = Headers(config)
    /\ transport = "pool"
    /\ caller = NoCaller
    /\ facade = NoFacade
    /\ call = Idle
    /\ items = <<>>
    /\ results = <<>>

NextPool ==
    \/ evaluate_batch
    \/ evaluate_batch_async
    \/ \E i \in 1 .. Len(items) : Begin(i)
    \/ \E i \in 1 .. Len(items) : PostOutcome(i)
    \/ \E i \in 1 .. Len(items) : Collect(i)
    \/ Gather

SpecPool == InitPool /\ [][NextPool]_vars

\* Every kind of call, single or batch, against the batch transport.
NextLive ==
    \/ CallEvaluate
    \/ NextBatch

\* What happens without the caller: a worker thread starts an evaluation, a
\* POST ends (with a response, or with an error at the configured timeout at
\* the latest), a sleep ends, a completed future is collected, gather
\* returns.
Steps ==
    \/ \E i \in 1 .. Len(items) : Begin(i)
    \/ \E i \in 1 .. Len(items) : PostOutcome(i)
    \/ \E i \in 1 .. Len(items) : Wake(i)
    \/ \E i \in 1 .. Len(items) : Collect(i)
    \/ Gather

\* The calls under the assumption that what can go on does go on: the
\* transport ends every POST, the threads are scheduled.
SpecLive == InitBatch /\ [][NextLive]_vars /\ WF_vars(Steps)

\* ------------------------------------------------- requests and their spans

\* Largest number of requests the caller wraps in a BatchEvaluationRequest.
MaxHeld == 2

\* Largest number of prompts of a batch call that passes trace_ids,
\* timestamps or project_name.
MaxArgs == 2

\* Values the caller passes for trace_id, timestamp and project_name (None,
\* empty and zero included) and as the elements of trace_ids and timestamps.
GivenTraceIds == {None, "", "t1"}
GivenTimestamps == {{}, {0}, {5}}
GivenProjectNames == {None, "", "req"}
ListedTraceIds == {"", "t1"}
ListedTimestamps == {{0}, {5}}

\* Whether the ambient span's set_attribute raises during an evaluation.
SpanFaults == {"none", "start", "end"}

\* The caller constructs EvaluationRequest(prompt=..., trace_id=...,
\* timestamp=..., ...) itself.
ConstructRequest ==
    /\ call.kind = "idle"
    /\ caller = NoCaller
    /\ \E trace_id \in GivenTraceIds, timestamp \in GivenTimestamps,
          response \in {None, "r"}, project_name \in {None, "req"} :
          caller' = [caller EXCEPT !.requests =
                        <<Held(EvaluationRequest("p", trace_id, timestamp,
                                                 response, "e", {0},
                                                 project_name, Uuid(1)),
                               "direct", trace_id, timestamp)>>]
    /\ UNCHANGED <<env, facade, config, headers, transport, call, items, results>>

\* The caller has Evaluator.create_evaluation_request construct the request.
CreateRequest ==
    /\ call.kind = "idle"
    /\ caller = NoCaller
    /\ \E trace_id \in GivenTraceIds, timestamp \in GivenTimestamps,
          response \in {None, "r"}, project_name \in {None, "req"},
          use_local_timestamp \in BOOLEAN :
          caller' = [caller EXCEPT !.requests =
                        <<Held(create_evaluation_request(
                                   "p", response, trace_id, timestamp, "e",
                                   {0}, project_name, use_local_timestamp,
                                   Uuid(1)).req[1],
                               IF use_local_timestamp THEN "local" ELSE "utc",
                               trace_id, timestamp)>>]
    /\ UNCHANGED <<env, facade, config, headers, transport, call, items, results>>

\* Evaluator.evaluate(type, request) on the request the caller holds, under
\* an ambient span whose set_attribute works or raises.
EvaluateRequest ==
    /\ call.kind = "idle"
    /\ Len(caller.requests) = 1 /\ caller.batch = <<>>
    /\ \E type \in EvaluationType \cup {OtherType}, fault \in SpanFaults :
          LET it == evaluate([NewItem(type, caller.requests[1].req)
                                 EXCEPT !.span_fault = fault])
          IN  /\ items' = <<[it EXCEPT !.slot =
                                 IF it.pc = "returned" THEN 1 ELSE 0]>>
              /\ call' = SingleCall(it)
              /\ results' = it.result
    /\ UNCHANGED <<env, caller, facade, config, headers, transport>>

\* The caller constructs up to MaxHeld requests, some with a project name of
\* their own, and BatchEvaluationRequest(requests, project_name) over them;
\* __post_init__ writes to the request objects of the caller's list.
ConstructBatch ==
    /\ call.kind = "idle"
    /\ caller = NoCaller
    /\ \E n \in 0 .. MaxHeld, shared \in {None, "", "shared"} :
       \E names \in [1 .. n -> GivenProjectNames] :
          LET made == [i \in 1 .. n |->
                          EvaluationRequest("p", None, {5}, "r", "e", {0},
                                            names[i], Uuid(i))]
              held == BatchEvaluationRequest(made, shared)
          IN  caller' = [caller EXCEPT
                            !.requests =
                                [i \in 1 .. n |->
                                    [Held(made[i], "direct", None, {5})
                                        EXCEPT !.req = held[i]]],
                            !.batch = <<[project_name |-> shared,
                                         size |-> n]>>]
    /\ UNCHANGED <<env, facade, config, headers, transport, call, items, results>>

\* batch_request.requests.append(EvaluationRequest(...)) after the
\* BatchEvaluationRequest was constructed.
AppendRequest ==
    /\ call.kind = "idle"
    /\ caller.batch # <<>>
    /\ Len(caller.requests) = caller.batch[1].size
    /\ \E project_name \in {None, "req"} :
          caller' = [caller EXCEPT !.requests =
                        Append(@, Held(EvaluationRequest(
                                           "p", None, {5}, "r", "e", {0},
                                           project_name,
                                           Uuid(Len(caller.requests) + 1)),
                                       "direct", None, {5}))]
    /\ UNCHANGED <<env, facade, config, headers, transport, call, items, results>>

\* Evaluator.evaluate_batch_async(SAFETY, batch_request) on the caller's
\* batch.
EvaluateHeldBatch ==
    /\ call.kind = "idle"
    /\ caller.batch # <<>>
    /\ StartBatch("batch_async", SAFETY, <<Len(caller.requests)>>,
                  [i \in 1 .. Len(caller.requests) |->
                      NewItem(SAFETY, caller.requests[i].req)], <<>>)
    /\ UNCHANGED <<env, caller, facade, config, headers, transport, results>>

\* BatchEvaluator.evaluate_safety_batch(prompts, trace_ids=..., timestamps=...,
\* project_name=...), each optional list left out or as long as prompts.
SafetyBatchWithArgs ==
    /\ call.kind = "idle"
    /\ caller = NoCaller
    /\ \E n \in 0 .. MaxArgs, project_name \in {None, "arg"} :
       \E trace_ids \in {NoList} \cup [1 .. n -> ListedTraceIds],
          timestamps \in {NoList} \cup [1 .. n -> ListedTimestamps] :
          LET args == Args(trace_ids, timestamps, project_name)
          IN  /\ SafetyBatch("batch", [i \in 1 .. n |-> "p"], args)
              /\ caller' = [caller EXCEPT !.args = args]
    /\ UNCHANGED <<env, facade, config, headers, transport, results>>

\* Requests constructed by the caller or by a batch method, then evaluated:
\* in UTC and in a zone east of it, with and without a configured project
\* name, against a transport that fails or answers.
InitRequest ==
    /\ env \in {e \in Environments :
                   /\ e.offset >= 0
                   /\ e.IFTRACER_API_KEY = "env-key"
                   /\ e.IFTRACER_USER_NAME = "env-user"}
    /\ config \in {EvaluatorConfig(None, None, p, 1) : p \in {"", "cfg"}}
    /\ headers = Headers(config)
    /\ transport = "request"
    /\ caller = NoCaller
    /\ facade = NoFacade
    /\ call = Idle
    /\ items = <<>>
    /\ results = <<>>

NextRequest ==
    \/ ConstructRequest
    \/ CreateRequest
    \/ EvaluateRequest
    \/ ConstructBatch
    \/ AppendRequest
    \/ EvaluateHeldBatch
    \/ SafetyBatchWithArgs
    \/ \E i \in 1 .. Len(items) : Begin(i)
    \/ \E i \in 1 .. Len(items) : PostOutcome(i)
    \/ \E i \in 1 .. Len(items) : Collect(i)
    \/ Gather

SpecRequest == InitRequest /\ [][NextRequest]_vars

\* ------------------------------------------------------------- the facade

\* Number of threads that call a facade helper, one call each.
MaxThreads == 2

\* A thread that has not called yet.
\*   pc      out | get (in get_evaluator, before its test) | construct (saw
\*           no evaluator, constructing one) | have (get_evaluator returned)
\*           | done | raised
\*   helper  the helper it calls: evaluate_safety or batch_evaluate_safety
\*   got     {k}: the evaluator get_evaluator returned to it
\*   used    {k}: the evaluator its evaluation ran on
Outside == [pc |-> "out", helper |-> None, got |-> {}, used |-> {}]

Helpers == {"evaluate_safety", "batch_evaluate_safety"}

\* Credentials a caller puts in the EvaluationConfig it constructs an
\* Evaluator with.
GivenCredentials == {None, "", "given"}

\* Thread t calls a helper, which calls get_evaluator().
CallHelper(t) ==
    /\ facade.threads[t].pc = "out"
    /\ \E helper \in Helpers :
          facade' = [facade EXCEPT !.threads[t].pc = "get",
                                   !.threads[t].helper = helper]
    /\ UNCHANGED <<env, caller, config, headers, transport, call, items, results>>

\* get_evaluator: `if not Iftracer.__evaluator`.
TestEvaluator(t) ==
    /\ facade.threads[t].pc = "get"
    /\ facade' = IF facade.evaluator = {}
                 THEN [facade EXCEPT !.threads[t].pc = "construct"]
                 ELSE [facade EXCEPT !.threads[t].pc = "have",
                                     !.threads[t].got = facade.evaluator]
    /\ UNCHANGED <<env, caller, config, headers, transport, call, items, results>>

\* get_evaluator: `Iftracer.__evaluator = Evaluator(config)` with config
\* None, and its return; a ValueError of the constructor leaves the helper.
StoreEvaluator(t) ==
    /\ facade.threads[t].pc = "construct"
    /\ LET made == Construction("get_evaluator", None, None)
           k == Len(facade.evaluators) + 1
       IN  facade' = IF made.exc # None
                     THEN [facade EXCEPT
                              !.evaluators = Append(@, made),
                              !.threads[t].pc = "raised"]
                     ELSE [facade EXCEPT
                              !.evaluators = Append(@, made),
                              !.evaluator = {k},
                              !.threads[t].pc = "have",
                              !.threads[t].got = {k}]
    /\ UNCHANGED <<env, caller, config, headers, transport, call, items, results>>

\* The rest of the helper.  evaluate_safety evaluates on the evaluator it
\* got; batch_evaluate_safety constructs BatchEvaluator(evaluator.config),
\* whose __init__ constructs an Evaluator from that config, and evaluates
\* on this one.
RunHelper(t) ==
    /\ facade.threads[t].pc = "have"
    /\ LET th == facade.threads[t]
           own == CHOOSE k \in th.got : TRUE
           cfg == facade.evaluators[own].config
           made == Construction("BatchEvaluator", cfg.api_key, cfg.username)
           k == Len(facade.evaluators) + 1
       IN  facade' =
               IF th.helper = "evaluate_safety"
               THEN [facade EXCEPT !.threads[t].pc = "done",
                                   !.threads[t].used = th.got]
               ELSE IF made.exc # None
               THEN [facade EXCEPT !.evaluators = Append(@, made),
                                   !.threads[t].pc = "raised"]
               ELSE [facade EXCEPT !.evaluators = Append(@, made),
                                   !.threads[t].pc = "done",
                                   !.threads[t].used = {k}]
    /\ UNCHANGED <<env, caller, config, headers, transport, call, items, results>>

\* A caller constructs Evaluator(EvaluationConfig(api_key=..., username=...))
\* itself, before any helper is called.
ConstructEvaluator ==
    /\ facade.evaluators = <<>>
    /\ \A t \in 1 .. Len(facade.threads) : facade.threads[t].pc = "out"
    /\ \E api_key \in GivenCredentials, username \in GivenCredentials :
          facade' = [facade EXCEPT !.evaluators =
                        <<Construction("caller", api_key, username)>>]
    /\ UNCHANGED <<env, caller, config, headers, transport, call, items, results>>

\* The facade in a process whose environment has the credentials set, set
\* empty or not set.
InitFacade ==
    /\ env \in {e \in Environments : e.offset = 0}
    /\ config = EvaluatorConfig("key", "user", "", DefaultRetryAttempts)
    /\ headers = Headers(config)
    /\ transport = "request"
    /\ caller = NoCaller
    /\ facade = [NoFacade EXCEPT !.threads = [t \in 1 .. MaxThreads |->
                                                 Outside]]
    /\ call = Idle
    /\ items = <<>>
    /\ results = <<>>

NextFacade ==
    \/ ConstructEvaluator
    \/ \E t \in 1 .. Len(facade.threads) : CallHelper(t)
    \/ \E t \in 1 .. Len(facade.threads) : TestEvaluator(t)
    \/ \E t \in 1 .. Len(facade.threads) : StoreEvaluator(t)
    \/ \E t \in 1 .. Len(facade.threads) : RunHelper(t)

SpecFacade == InitFacade /\ [][NextFacade]_vars

\* ------------------------------------------------------------- properties

\* A request that carries the fields its type requires, so that evaluate
\* reaches _post_request.
Complete(type, req) ==
    /\ type \in EvaluationType
    /\ type # SAFETY => ~Falsy(req.response)
    /\ type = EXTERNAL_HALLUCINATION =>
          req.explanation # None /\ req.score # {}

\* A request that lacks a field its type requires.
MissingRequired(type, req) ==
    \/ /\ type \in {HALLUCINATION_BIAS, EXTERNAL_HALLUCINATION}
       /\ req.response = None
    \/ /\ type = EXTERNAL_HALLUCINATION
       /\ req.explanation = None \/ req.score = {}

ItemIds == 1 .. Len(items)

\* C1: for every retry_attempts value, an evaluate call that reaches the
\* transport and whose every POST raised a transport error has issued
\* exactly retry_attempts POSTs when it ends, and it ends by returning an
\* error response; no call ever issues more than retry_attempts POSTs.
C1_RetryCount ==
    \A i \in ItemIds :
        LET it == items[i]
        IN  /\ it.posts <= config.retry_attempts
            /\ (Done(it) /\ Complete(it.type, it.req) /\ it.answers = 0) =>
                  /\ it.pc = "returned"
                  /\ ~it.result[1].success
                  /\ it.posts = config.retry_attempts
                  /\ it.errors = config.retry_attempts

C1_Witness ==
    \E i \in ItemIds :
        /\ items[i].pc = "returned" /\ items[i].answers = 0
        /\ items[i].posts = config.retry_attempts
        /\ items[i].posts >= 3
        /\ ~items[i].result[1].success

\* C2: once a POST has answered with a 4xx or 5xx status the evaluate call
\* has returned (no retry, no sleep follows), its error response carries
\* that status as status_code, and when that answer was the first thing the
\* transport did, exactly one POST was issued and nothing was slept.
C2_NoRetryOnHttpError ==
    \A i \in ItemIds :
        LET it == items[i]
        IN  (\E st \in it.http : 400 <= st /\ st < 600) =>
                /\ it.pc = "returned"
                /\ ~it.result[1].success
                /\ it.result[1].status_code = it.http
                /\ it.answers = 1 /\ it.errors = 0 =>
                      it.posts = 1 /\ it.sleeps = <<>>

C2_Witness ==
    \E i \in ItemIds :
        /\ items[i].pc = "returned" /\ items[i].http = {404}
        /\ items[i].posts = 1 /\ items[i].sleeps = <<>>
        /\ items[i].result[1].status_code = {404}
        /\ config.retry_attempts > 1

\* C3: an evaluation of type HALLUCINATION_BIAS or EXTERNAL_HALLUCINATION
\* whose response is missing, or of type EXTERNAL_HALLUCINATION whose
\* explanation or score is missing, returns an error response and has issued
\* no POST.
C3_FailFast ==
    \A i \in ItemIds :
        LET it == items[i]
        IN  (it.pc # "queued" /\ MissingRequired(it.type, it.req)) =>
                /\ it.pc = "returned"
                /\ ~it.result[1].success
                /\ it.posts = 0

C3_Witness ==
    \E i \in ItemIds :
        /\ items[i].type = EXTERNAL_HALLUCINATION
        /\ items[i].req.response = "r" /\ items[i].req.explanation = None
        /\ items[i].req.score = {0}
        /\ items[i].pc = "returned" /\ items[i].posts = 0
        /\ config.retry_attempts > 0

\* Each evaluation of the call has its own position in the result list, and
\* the response there is its own: the response it returned, or an error
\* response if it raised.
OwnResponses ==
    /\ \A i \in ItemIds :
          /\ Done(items[i])
          /\ items[i].slot \in 1 .. Len(results)
          /\ items[i].pc = "returned" =>
                results[items[i].slot] = items[i].result[1]
          /\ items[i].pc = "raised" => ~results[items[i].slot].success
    /\ \A i, j \in ItemIds : i # j => items[i].slot # items[j].slot

\* C4: a synchronous batch never raises once its requests are submitted, and
\* when it returns the list holds exactly one response per submitted
\* request: the item's own response, or an error response for an item that
\* raised.
C4_SyncBatchOnePerRequest ==
    call.kind = "batch" =>
        /\ call.phase = "raised" => Len(items) = 0
        /\ Len(results) <= Len(items)
        /\ call.phase = "returned" =>
              /\ Len(items) = call.lens[1]
              /\ Len(results) = Len(items)
              /\ OwnResponses

C4_Witness ==
    /\ call.kind = "batch" /\ call.phase = "returned"
    /\ Len(results) = 2
    /\ \E i, j \in ItemIds :
          /\ items[i].pc = "raised" /\ items[j].pc = "returned"
          /\ items[j].result[1].success
          /\ items[i].slot < items[j].slot

\* C5: an asynchronous batch never raises once its requests are submitted,
\* and when it returns the list holds exactly one response per submitted
\* request: every task has ended, a task that raised stands as an error
\* response and every other task as the response it returned.
C5_AsyncBatchOnePerRequest ==
    call.kind = "batch_async" =>
        /\ call.phase = "raised" => Len(items) = 0
        /\ call.phase = "returned" =>
              /\ Len(items) = call.lens[1]
              /\ Len(results) = Len(items)
              /\ OwnResponses

C5_Witness ==
    /\ call.kind = "batch_async" /\ call.phase = "returned"
    /\ Len(results) = 2
    /\ \E i, j \in ItemIds :
          /\ items[i].pc = "raised" /\ items[j].pc = "returned"
          /\ items[j].result[1].success
          /\ ~results[i].success /\ results[j].success

\* C6: evaluate_mixed_batch returns exactly one response per input entry,
\* entries of an unsupported type included.
C6_MixedOnePerEntry ==
    (call.kind = "mixed" /\ call.phase = "returned") =>
        Len(results) = call.lens[1]

\* C7: a call to evaluate never raises, whatever the transport does.
C7_EvaluateNeverRaises ==
    call.kind = "evaluate" => call.phase # "raised"

\* C8: for every retry_attempts value, when all attempts of an evaluate call
\* ended in a transport error, the message of the error response names the
\* endpoint and the attempt count.
C8_ExhaustedMessage ==
    \A i \in ItemIds :
        LET it == items[i]
        IN  (Done(it) /\ Complete(it.type, it.req) /\ it.answers = 0) =>
                /\ it.pc = "returned"
                /\ it.result[1].error_message.endpoint = Endpoint(it.type)
                /\ it.result[1].error_message.count =
                      {config.retry_attempts}

\* C9: a homogeneous batch call (synchronous or asynchronous) whose input
\* lists differ in length raises ValueError, and has submitted no evaluation
\* and issued no POST.
C9_LengthMismatch ==
    (/\ call.kind \in {"batch", "batch_async"}
     /\ \E k \in 1 .. Len(call.lens) : call.lens[k] # call.lens[1]) =>
        /\ call.phase = "raised"
        /\ call.exc = "ValueError"
        /\ Len(items) = 0
        /\ Len(results) = 0

C9_Witness ==
    /\ call.kind = "batch" /\ call.phase = "raised"
    /\ Len(call.lens) = 4
    /\ call.lens[1] = 2 /\ call.lens[2] = 2 /\ call.lens[3] = 2
    /\ call.lens[4] = 1

\* C10: in a batch, homogeneous or mixed, a request that lacks a required
\* field aborts only its own evaluation: the batch call does not raise on
\* lists of matching lengths, and the evaluation of such a request returns an
\* error response.
C10_MissingFieldIsolated ==
    /\ (/\ call.kind \in {"batch", "batch_async", "mixed"}
        /\ \A k \in 1 .. Len(call.lens) : call.lens[k] = call.lens[1]) =>
          call.phase # "raised"
    /\ \A i \in ItemIds :
          (Done(items[i]) /\ MissingRequired(items[i].type, items[i].req)) =>
              items[i].pc = "returned" /\ ~items[i].result[1].success

\* The place of a type in the order evaluate_mixed_batch evaluates its
\* sub-batches.
Rank(type) ==
    CASE type = SAFETY -> 1
      [] type = HALLUCINATION_BIAS -> 2
      [] type = EXTERNAL_HALLUCINATION -> 3

\* C11: the list a mixed batch returns holds the responses of the SAFETY
\* entries, then those of the HALLUCINATION_BIAS entries, then those of the
\* EXTERNAL_HALLUCINATION entries, whatever the order of the entries in the
\* input: each supported type contributes one response per entry of that
\* type (none when it has no entry), and every response of an earlier type
\* stands before every response of a later one.
C11_MixedGroupedByType ==
    (call.kind = "mixed" /\ call.phase = "returned") =>
        /\ \A t \in EvaluationType :
              Cardinality({i \in ItemIds : items[i].type = t}) =
              Cardinality({k \in 1 .. Len(call.types) : call.types[k] = t})
        /\ Len(results) = Len(items)
        /\ OwnResponses
        /\ \A i, j \in ItemIds :
              Rank(items[i].type) < Rank(items[j].type) =>
                  items[i].slot < items[j].slot

C11_Witness ==
    /\ call.kind = "mixed" /\ call.phase = "returned"
    /\ call.types = <<EXTERNAL_HALLUCINATION, SAFETY>>
    /\ Len(results) = 2
    /\ \E i, j \in ItemIds :
          /\ items[i].type = SAFETY /\ items[i].slot = 1
          /\ items[j].type = EXTERNAL_HALLUCINATION /\ items[j].slot = 2
          /\ items[j].posts > 0

C13_SyncAtMostFive ==
    call.kind = "batch" => Cardinality(InFlight) <= 5

C13_Witness ==
    /\ call.kind = "batch" /\ call.phase = "running"
    /\ Len(items) > 5
    /\ Cardinality(InFlight) = 5
    /\ \E i \in ItemIds : items[i].pc = "queued"

\* C14: during an asynchronous batch no more than 5 single evaluations are
\* in flight at any moment, whatever the size of the batch.
C14_AsyncAtMostFive ==
    call.kind = "batch_async" => Cardinality(InFlight) <= 5

\* C15: provided every POST ends (with a response or with an error), every
\* call that was started, a single evaluate or a synchronous, asynchronous
\* or mixed batch, eventually ends: control comes back to the caller, with
\* the call's value or, where the call raises, with its exception.
C15_CallsEnd ==
    (call.phase = "running") ~> (call.phase \in {"returned", "raised"})

C15_Witness ==
    /\ call.kind = "mixed" /\ call.phase = "returned"
    /\ Len(items) = 2
    /\ \E i, j \in ItemIds :
          /\ items[i].type # items[j].type
          /\ items[i].pc = "raised"
          /\ Len(items[j].sleeps) = config.retry_attempts - 1
          /\ items[j].errors = config.retry_attempts
          /\ config.retry_attempts > 1

\* C16: a batch call, synchronous or asynchronous, returns only after every
\* submitted evaluation has run to its end: when the list is returned no
\* evaluation is queued or in flight, there is one evaluation per request,
\* and every evaluation of a request that passes validation has issued its
\* POST, whatever happened to the others.
C16_ReturnsAfterAllDone ==
    (call.kind \in {"batch", "batch_async"} /\ call.phase = "returned") =>
        /\ Len(items) = call.lens[1]
        /\ InFlight = {}
        /\ \A i \in ItemIds :
              /\ Done(items[i])
              /\ (Complete(items[i].type, items[i].req)
                      /\ config.retry_attempts > 0) => items[i].posts > 0

C16_Witness ==
    /\ call.kind = "batch_async" /\ call.phase = "returned"
    /\ \E i, j \in ItemIds :
          /\ i < j
          /\ items[i].pc = "raised"
          /\ items[j].pc = "returned" /\ items[j].posts > 1
          /\ items[j].result[1].success

\* C17: in a batch result each response identifies the request it answers,
\* so that responses and requests can be matched without their positions.
\* Each evaluation of a batch is a request of its own, with its own trace_id,
\* so identifying responses are pairwise distinct; this is stated for the
\* batches that return in completion order and for the responses to requests
\* whose every POST ended in a transport error, whose content the code alone
\* determines.
C17_ResponsesIdentifyRequests ==
    (call.kind \in {"batch", "mixed"} /\ call.phase = "returned") =>
        \A i, j \in ItemIds :
            (/\ i # j
             /\ items[i].errors > 0 /\ items[i].answers = 0
             /\ items[j].errors > 0 /\ items[j].answers = 0) =>
                results[items[i].slot] # results[items[j].slot]

\* C18: evaluate called with a type that is none of the three supported ones
\* returns an error response whose message names that type; it issues no
\* POST and does not raise.
C18_UnsupportedType ==
    \A i \in ItemIds :
        LET it == items[i]
        IN  (it.type \notin EvaluationType /\ it.pc # "queued") =>
                /\ it.pc = "returned"
                /\ ~it.result[1].success
                /\ it.result[1].error_message.kind =
                      "Unsupported evaluation type"
                /\ it.result[1].error_message.type = it.type
                /\ it.posts = 0
                /\ call.kind = "evaluate" =>
                      call.phase = "returned" /\ results = it.result

C18_Witness ==
    /\ call.kind = "evaluate" /\ call.phase = "returned"
    /\ config.retry_attempts > 0
    /\ items[1].type = OtherType
    /\ items[1].req.response = "r"
    /\ results[1].error_message.type = OtherType
    /\ items[1].posts = 0

\* C19: an evaluation ends in a success response only when the status of
\* the answer is exactly 200; a status from 400 to 599 gives an error
\* response that carries that status as status_code; any other status
\* (another 2xx, a 3xx, 600) gives an error response with the 'Unexpected
\* status code' message and that status.
C19_StatusMapping ==
    \A i \in ItemIds :
        LET it == items[i]
        IN  /\ (it.pc = "returned" /\ it.result[1].success) =>
                  it.http = {200}
            /\ \A st \in it.http :
                  /\ (400 <= st /\ st <= 599) =>
                        /\ it.pc = "returned"
                        /\ ~it.result[1].success
                        /\ it.result[1].status_code = {st}
                        /\ it.result[1].error_message.kind \in
                              {"Client error", "Server error"}
                  /\ (st # 200 /\ (st < 400 \/ st > 599)) =>
                        /\ it.pc = "returned"
                        /\ ~it.result[1].success
                        /\ it.result[1].status_code = {st}
                        /\ it.result[1].error_message.kind =
                              "Unexpected status code"

C19_Witness ==
    \E i \in ItemIds :
        /\ items[i].http = {204} /\ items[i].errors > 0
        /\ items[i].pc = "returned"
        /\ items[i].result[1].error_message.kind = "Unexpected status code"
        /\ items[i].result[1].status_code = {204}

\* C20: a 200 answer whose body is a JSON object gives a success response
\* whose data is the value under 'evaluations' when the object has that key,
\* and the whole object when it has not.
C20_DataUnwrapped ==
    \A i \in ItemIds :
        LET it == items[i]
        IN  /\ (it.pc = "returned" /\ it.result[1].success) =>
                  /\ it.parsed = "evals_object" =>
                        it.result[1].data = "evaluations_value"
                  /\ it.parsed = "null_evaluations" =>
                        it.result[1].data = None
                  /\ it.parsed = "plain_object" =>
                        it.result[1].data = it.parsed
            /\ (it.pc # "queued" /\ it.parsed \in
                    {"evals_object", "null_evaluations", "plain_object"}) =>
                  it.pc = "returned" /\ it.result[1].success

C20_Witness ==
    \E i \in ItemIds :
        /\ items[i].parsed = "evals_object" /\ items[i].posts > 1
        /\ items[i].pc = "returned"
        /\ items[i].result[1].success
        /\ items[i].result[1].data = "evaluations_value"


\* Every EvaluationResponse there is: the result of an evaluation and the
\* entries of the list a call returns.
Responses ==
    {items[i].result[1] : i \in {j \in ItemIds : items[j].result # <<>>}}
        \cup {results[k] : k \in 1 .. Len(results)}

\* C21: every EvaluationResponse has one of two shapes: success with no
\* error message and no status code, or failure with no data and with an
\* error message; none carries both data and an error.
C21_TwoShapes ==
    \A r \in Responses :
        \/ /\ r.success
           /\ r.error_message = NoMessage
           /\ r.status_code = {}
        \/ /\ ~r.success
           /\ r.data = None
           /\ r.error_message # NoMessage
           /\ r.error_message.kind # None

C21_Witness ==
    /\ call.kind = "evaluate" /\ call.phase = "returned"
    /\ items[1].errors > 0 /\ items[1].http = {200}
    /\ results[1].success
    /\ results[1].data = "evaluations_value"


\* A request with a trace id and a timestamp.
Populated(req) ==
    /\ req.trace_id # None /\ req.trace_id # ""
    /\ req.timestamp # {} /\ req.timestamp # {0}

\* C22: a request has a non-empty trace_id and a timestamp from the end of
\* its construction on, also when it was constructed without them, and no
\* later operation (evaluate, BatchEvaluationRequest, evaluate_batch)
\* changes either: the request the caller holds and the request an
\* evaluation reads carry the values construction left.
C22_RequestPopulated ==
    /\ \A k \in 1 .. Len(caller.requests) :
          LET h == caller.requests[k]
          IN  /\ Populated(h.made)
              /\ h.req.trace_id = h.made.trace_id
              /\ h.req.timestamp = h.made.timestamp
    /\ \A i \in ItemIds :
          /\ Populated(items[i].req)
          /\ caller.requests # <<>> =>
                /\ items[i].req.trace_id = caller.requests[i].made.trace_id
                /\ items[i].req.timestamp = caller.requests[i].made.timestamp

C22_Witness ==
    /\ call.kind = "evaluate" /\ call.phase = "returned"
    /\ caller.requests[1].path = "direct"
    /\ caller.requests[1].trace_id = "" /\ caller.requests[1].timestamp = {}
    /\ items[1].posts > 0
    /\ items[1].req.trace_id = Uuid(1)
    /\ items[1].req.timestamp = {env.now}


\* C23: a timestamp generated because the caller supplied none (None) is
\* the UTC epoch milliseconds plus the local UTC offset in milliseconds, on
\* both construction paths: EvaluationRequest(...) and
\* create_evaluation_request(...), with and without use_local_timestamp.
C23_GeneratedTimestampLocal ==
    \A k \in 1 .. Len(caller.requests) :
        caller.requests[k].timestamp = {} =>
            caller.requests[k].made.timestamp = {env.now + env.offset}


\* C24: in a homogeneous batch that is given trace_ids and timestamps, the
\* request built for index i carries trace_ids[i] and timestamps[i], and
\* these are the traceId and timestamp of its payload, for every index and
\* every supplied value.  Stated for the supplied trace ids that are not
\* empty (a request never has an empty trace_id) and for every supplied
\* timestamp.
C24_ListedValuesCarried ==
    (call.kind = "batch" /\ caller.batch = <<>>) =>
        \A i \in ItemIds :
            LET it == items[i]
                args == caller.args
            IN  /\ (args.trace_ids # NoList /\ args.trace_ids[i] # "") =>
                      /\ it.req.trace_id = args.trace_ids[i]
                      /\ it.sent # <<>> =>
                            it.sent[1].data.traceId = args.trace_ids[i]
                /\ args.timestamps # NoList =>
                      /\ it.req.timestamp = args.timestamps[i]
                      /\ it.sent # <<>> =>
                            it.sent[1].data.timestamp = args.timestamps[i]


AfterFallback(given, name) ==
    IF given # None /\ given # ""
    THEN given
    ELSE IF env[name] = None THEN "" ELSE env[name]

\* C26: constructing an Evaluator fails (ValueError) when api_key and
\* username are both empty after the fallback to the environment's values.
C26_NoCredentialsFails ==
    \A k \in 1 .. Len(facade.evaluators) :
        LET e == facade.evaluators[k]
        IN  (/\ AfterFallback(e.api_key, "IFTRACER_API_KEY") = ""
             /\ AfterFallback(e.username, "IFTRACER_USER_NAME") = "") =>
                /\ e.exc = "ValueError"
                /\ facade.evaluator # {k}

C26_Witness ==
    /\ env.IFTRACER_API_KEY = None /\ env.IFTRACER_USER_NAME = ""
    /\ Len(facade.evaluators) = 1
    /\ facade.evaluators[1].by = "caller"
    /\ facade.evaluators[1].api_key = "" /\ facade.evaluators[1].username = None
    /\ facade.evaluators[1].exc = "ValueError"

\* C28: the facade's default evaluator is a singleton created on the first
\* helper call: however the helper calls (single and batch) follow or
\* overlap each other, the facade's code constructs at most one Evaluator,
\* and every helper evaluates on the evaluator get_evaluator holds.
C28_OneEvaluator ==
    /\ Cardinality({k \in 1 .. Len(facade.evaluators) :
                       /\ facade.evaluators[k].by # "caller"
                       /\ facade.evaluators[k].exc = None}) <= 1
    /\ \A t \in 1 .. Len(facade.threads) :
          facade.threads[t].used # {} =>
              facade.threads[t].used = facade.evaluator


\* C27: each evaluation type posts to its own endpoint a payload of its own
\* shape: SAFETY exactly projectName, prompt, traceId and timestamp;
\* HALLUCINATION_BIAS these and response; EXTERNAL_HALLUCINATION these,
\* response, evaluationResult (the explanation) and score.  projectName is
\* the request's project_name when it has one, else the configured name.
C27_EndpointAndPayload ==
    \A i \in ItemIds :
        LET it == items[i]
            req == it.req
            data == it.sent[1].data
            common == {"projectName", "prompt", "traceId", "timestamp"}
        IN  /\ it.posts > 0 => it.sent # <<>>
            /\ it.sent # <<>> =>
                  /\ data.projectName =
                        IF req.project_name # None /\ req.project_name # ""
                        THEN req.project_name ELSE config.project_name
                  /\ data.prompt = req.prompt
                  /\ data.traceId = req.trace_id
                  /\ data.timestamp = req.timestamp
                  /\ it.type \in EvaluationType
                  /\ it.type = SAFETY =>
                        /\ it.sent[1].endpoint =
                              "/api/external/v1/evaluation/safety"
                        /\ DOMAIN data = common
                  /\ it.type = HALLUCINATION_BIAS =>
                        /\ it.sent[1].endpoint =
                              "/api/external/v1/evaluation/bias-hallu"
                        /\ DOMAIN data = common \cup {"response"}
                        /\ data.response = req.response
                  /\ it.type = EXTERNAL_HALLUCINATION =>
                        /\ it.sent[1].endpoint =
                              "/api/external/v1/evaluation/exter-hallu"
                        /\ DOMAIN data = common \cup {"response",
                                                       "evaluationResult",
                                                       "score"}
                        /\ data.response = req.response
                        /\ data.evaluationResult = req.explanation
                        /\ data.score = req.score

C27_Witness ==
    /\ call.kind = "evaluate" /\ call.phase = "returned"
    /\ items[1].type = EXTERNAL_HALLUCINATION /\ items[1].answers > 0
    /\ config.project_name = "cfg"
    /\ items[1].req.project_name = "req"
    /\ items[1].sent[1].data.projectName = "req"
    /\ items[1].sent[1].data.evaluationResult = "e"


\* C29: for every evaluate call that has returned, the calls that failed
\* their type's validation included, the ambient span has received the
\* evaluation type, the request's trace id and timestamp and the success
\* flag of the response, and for a failure its error message.  Stated for
\* spans whose set_attribute works.
C29_SpanAttributes ==
    \A i \in ItemIds :
        LET it == items[i]
        IN  (it.pc = "returned" /\ it.span_fault = "none") =>
                /\ it.span.type = {it.type}
                /\ it.span.trace_id = {it.req.trace_id}
                /\ it.span.timestamp = {it.req.timestamp}
                /\ it.span.success = {it.result[1].success}
                /\ ~it.result[1].success =>
                      it.span.error = {it.result[1].error_message}


\* C30: a set_attribute that fails, at whatever point of an evaluate call,
\* does not change what the call returns: the call does not raise, and it
\* returns a response that says whether its POST succeeded.
C30_SpanFailureHarmless ==
    \A i \in ItemIds :
        LET it == items[i]
        IN  (it.span_fault # "none" /\ it.type \in EvaluationType) =>
                /\ it.pc # "raised"
                /\ it.exc = None
                /\ (it.answers > 0 /\ it.http = {200}) =>
                      it.pc = "returned" /\ it.result[1].success


\* C36: constructing an Evaluator succeeds only when api_key and username
\* are both non-empty after the fallback to the environment's values: it
\* fails (ValueError) also when exactly one of the two is missing, and an
\* evaluator that exists has both.
C36_BothCredentialsNeeded ==
    \A k \in 1 .. Len(facade.evaluators) :
        LET e == facade.evaluators[k]
            key == AfterFallback(e.api_key, "IFTRACER_API_KEY")
            user == AfterFallback(e.username, "IFTRACER_USER_NAME")
        IN  /\ (key = "" \/ user = "") <=> e.exc = "ValueError"
            /\ e.exc = None =>
                  /\ e.config.api_key = key /\ key # ""
                  /\ e.config.username = user /\ user # ""

C36_Witness ==
    /\ env.IFTRACER_USER_NAME = None /\ env.IFTRACER_API_KEY = None
    /\ Len(facade.evaluators) = 1
    /\ facade.evaluators[1].by = "caller"
    /\ facade.evaluators[1].api_key = "given"
    /\ facade.evaluators[1].username = None
    /\ facade.evaluators[1].exc = "ValueError"


\* C32: the back-off doubles: the sleep after the first failed attempt lasts
\* 1 second and each later sleep twice the one before; an evaluation sleeps
\* after every failed attempt that is not the last allowed one and not after
\* the last, so it has slept once per POST while it sleeps and once per POST
\* but the last otherwise, and never retry_attempts times.
C32_DoublingBackoff ==
    \A i \in ItemIds :
        LET it == items[i]
            n == Len(it.sleeps)
        IN  /\ n > 0 => it.sleeps[1] = 1
            /\ \A j \in 1 .. (n - 1) : it.sleeps[j + 1] = 2 * it.sleeps[j]
            /\ n = IF it.pc = "sleeping" THEN it.posts
                   ELSE IF it.posts > 0 THEN it.posts - 1 ELSE 0
            /\ n > 0 => n < config.retry_attempts
            /\ it.pc = "sleeping" => it.errors + it.answers = it.posts

C32_Witness ==
    /\ call.kind = "evaluate" /\ call.phase = "returned"
    /\ config.retry_attempts = 3
    /\ items[1].errors = 3 /\ items[1].posts = 3
    /\ items[1].sleeps = <<1, 2>>
    /\ ~results[1].success


\* C34: the retry loop stops at the first attempt that obtains an HTTP
\* response, whatever the response is: when the attempts before it raised
\* transport errors and attempt k is answered, k POSTs are all the call
\* issues: no sleep and no further POST follows the answer.
C34_StopsAtFirstResponse ==
    \A i \in ItemIds :
        LET it == items[i]
        IN  it.answers > 0 =>
                /\ it.pc \in {"returned", "raised"}
                /\ it.answers = 1
                /\ it.posts = it.errors + 1
                /\ Len(it.sleeps) = it.errors


\* C35: evaluate_batch_async returns its responses in submission order: the
\* i-th response of the list is the outcome of the i-th submitted request
\* (its response, or the 'Evaluation failed' error response if it raised),
\* whatever order the tasks ended in.
C35_AsyncSubmissionOrder ==
    (call.kind = "batch_async" /\ call.phase = "returned") =>
        /\ Len(results) = Len(items)
        /\ \A i \in ItemIds :
              /\ items[i].slot = i
              /\ items[i].pc = "returned" => results[i] = items[i].result[1]
              /\ items[i].pc = "raised" =>
                    /\ ~results[i].success
                    /\ results[i].error_message.kind = "Evaluation failed"

C35_Witness ==
    /\ call.kind = "batch_async" /\ call.phase = "returned"
    /\ Len(items) = 2
    /\ items[1].ended = 2 /\ items[2].ended = 1
    /\ items[1].pc = "returned" /\ items[2].pc = "returned"
    /\ results[1].success /\ ~results[2].success
    /\ results[1] = items[1].result[1]


\* C31: when a batch call, synchronous or asynchronous, has returned, the
\* attributes of its span agree with what it returned: evaluation.batch_size
\* is the number of requests submitted, evaluation.successful_count the
\* number of returned responses with success set, evaluation.failed_count
\* the number without (the error responses standing for evaluations that
\* raised among them), and the two counts add up to the batch size.  Of a
\* mixed batch the span is that of the sub-batch evaluated last.
C31_BatchSpanCounts ==
    /\ call.kind \in {"batch", "batch_async"} /\ call.phase = "returned" =>
          LET ok == {k \in 1 .. Len(results) : results[k].success}
              failed == {k \in 1 .. Len(results) : ~results[k].success}
          IN  /\ Len(results) = Len(items)
              /\ call.span.batch_size = {Len(items)}
              /\ call.span.successful_count = {Cardinality(ok)}
              /\ call.span.failed_count = {Cardinality(failed)}
              /\ Cardinality(ok) + Cardinality(failed) = Len(items)
              /\ call.span.type =
                     IF Len(items) = 0 THEN call.span.type
                     ELSE {[prefix |-> IF call.kind = "batch"
                                       THEN "batch_" ELSE "async_batch_",
                            value |-> items[1].type]}
    /\ call.kind = "mixed" /\ call.phase = "returned" /\ Len(items) > 0 =>
          LET sub == {j \in 1 .. Len(items) :
                         items[j].type = items[Len(items)].type}
              ok == {j \in sub : results[items[j].slot].success}
          IN  /\ call.span.batch_size = {Cardinality(sub)}
              /\ call.span.successful_count = {Cardinality(ok)}
              /\ call.span.failed_count = {Cardinality(sub \ ok)}

\* A batch of two has returned: one evaluation raised, the other returned a
\* successful response, and the span counts one of each.
C31_Witness ==
    /\ call.kind \in {"batch", "batch_async"}
    /\ call.phase = "returned"
    /\ Len(items) = 2
    /\ \E i \in 1 .. 2 : items[i].pc = "raised"
    /\ \E i \in 1 .. 2 : items[i].pc = "returned" /\ items[i].result[1].success
    /\ call.span.batch_size = {2}
    /\ call.span.successful_count = {1}
    /\ call.span.failed_count = {1}


\* C33: no step of an evaluate call or of a batch call, in whatever order the
\* workers of a batch take their steps, changes what the workers share: the
\* evaluator's configuration (project name, endpoint, credentials, timeout,
\* retry_attempts) and its request headers stay as the constructor left
\* them, and every POST is sent with these headers and this timeout.
C33_SharedStateUnchanged ==
    /\ [][config' = config /\ headers' = headers]_vars
    /\ [](/\ headers = Headers(config)
          /\ \A i \in 1 .. Len(items) :
                items[i].sent # <<>> =>
                   /\ items[i].sent[1].headers = headers
                   /\ items[i].sent[1].timeout = config.timeout)

\* A batch of two has returned after both its evaluations posted, each with
\* retries, and the configuration and the headers are those of the
\* construction.
C33_Witness ==
    /\ call.kind \in {"batch", "batch_async"}
    /\ call.phase = "returned"
    /\ Len(items) = 2
    /\ \A i \in 1 .. 2 : items[i].posts > 1 /\ items[i].sent # <<>>
    /\ config = EvaluatorConfig(None, None, "", config.retry_attempts)
    /\ headers["X-Api-Key"] = "env-key"
    /\ headers["X-User-Name"] = "env-user"
    /\ headers["Content-Type"] = "application/json"
    /\ items[1].sent[1].headers = items[2].sent[1].headers

=============================================================================
